---- MODULE Spec2Model ----
(***************************************************************************)
(* Game session of tic_tac_toe_frontend/src/App.js: the React state of     *)
(* App (mode, board, xIsNext, aiPlays), the pending setTimeout of the "AI  *)
(* turn effect", the event handlers, and the helpers calculateWinner,      *)
(* availableMoves and aiMove.                                              *)
(*                                                                         *)
(* A JavaScript array is modelled as a function from its property keys to  *)
(* cell values; null and undefined (both falsy, both == null) are Null.    *)
(***************************************************************************)
EXTENDS Integers, Sequences, FiniteSets, TLC

VARIABLES
  board, xIsNext, mode, aiPlays,   \* useState of App
  timers,                          \* pending setTimeout closures of the AI turn effect
  last,                            \* history: the last event and what it saw
  humanPlaced, aiPlaced,           \* history: who filled each cell of this round
  roundStarter,                    \* history: the mark that moved first this round
  swapRun,                         \* history: consecutive restartAndSwap calls
                                   \*          counted from the initial position
  probe                            \* SpecPure: the helper called and what it returned

vars == <<board, xIsNext, mode, aiPlays, timers,
          last, humanPlaced, aiPlaced, roundStarter, swapRun, probe>>

\* ------------------------------------------------------------------ bounds
\* Math.random() is drawn from {0/RandomSteps, ..., (RandomSteps-1)/RandomSteps}
RandomSteps == 4
\* SpecAnyIndex only: how far outside 0..8 a direct caller's index may lie,
\* and how many cells may be filled before it stops issuing move requests
Overshoot == 1
MaxFilled == 3

\* --------------------------------------------------------------- constants
Null == "null"
NoMove == -1
BoardSize == 9
Marks == {"X", "O"}
Modes == {"PVP", "AI"}

LINES == << <<0, 1, 2>>, <<3, 4, 5>>, <<6, 7, 8>>,
            <<0, 3, 6>>, <<1, 4, 7>>, <<2, 5, 8>>,
            <<0, 4, 8>>, <<2, 4, 6>> >>

\* Array(9).fill(null)
EmptyBoard == [i \in 0..(BoardSize - 1) |-> Null]

\* the squares the Board component renders: onPlay(i) for i in 0..8
Squares == 0..8

\* ------------------------------------------------------- array primitives
\* b[i]: a missing property reads as undefined
Get(b, i) == IF i \in DOMAIN b THEN b[i] ELSE Null

\* b.length: one more than the largest array index
Length(b) ==
  LET idx == {k \in DOMAIN b : k >= 0}
  IN  IF idx = {} THEN 0 ELSE 1 + (CHOOSE k \in idx : \A j \in idx : j <= k)

\* [...b]: the elements 0..length-1, other properties dropped
Spread(b) == [k \in 0..(Length(b) - 1) |-> Get(b, k)]

\* b[i] = v on an array object
Put(b, i, v) == [k \in (DOMAIN b) \cup {i} |-> IF k = i THEN v ELSE b[k]]

\* --------------------------------------------------------------- helpers
LineWins(b, l) ==
  /\ Get(b, l[1]) # Null
  /\ Get(b, l[1]) = Get(b, l[2])
  /\ Get(b, l[1]) = Get(b, l[3])

\* calculateWinner without the "board[a] &&" test: three nulls match
calculateWinner_noTruthyTest(b) ==
  LET hits == {k \in 1..Len(LINES) :
                 /\ Get(b, LINES[k][1]) = Get(b, LINES[k][2])
                 /\ Get(b, LINES[k][1]) = Get(b, LINES[k][3])}
  IN  IF hits = {}
      THEN [winner |-> Null, line |-> <<>>]
      ELSE LET k == CHOOSE h \in hits : \A j \in hits : h <= j
           IN  [winner |-> Get(b, LINES[k][1]), line |-> LINES[k]]

calculateWinner(b) ==
  LET hits == {k \in 1..Len(LINES) : LineWins(b, LINES[k])}
  IN  IF hits = {}
      THEN [winner |-> Null, line |-> <<>>]
      ELSE LET k == CHOOSE h \in hits : \A j \in hits : h <= j
           IN  [winner |-> Get(b, LINES[k][1]), line |-> LINES[k]]

\* the loop of availableMoves from index i on, n = board.length
RECURSIVE AvailFrom(_, _, _)
AvailFrom(b, i, n) ==
  IF i >= n THEN <<>>
  ELSE (IF Get(b, i) = Null THEN <<i>> ELSE <<>>) \o AvailFrom(b, i + 1, n)

availableMoves(b) == AvailFrom(b, 0, Length(b))

Other(p) == IF p = "X" THEN "O" ELSE "X"

\* first move m of moves (in order) for which placing mark p wins for p
FirstWinning(b, moves, p) ==
  LET ks == {k \in 1..Len(moves) :
               calculateWinner(Put(Spread(b), moves[k], p)).winner = p}
  IN  IF ks = {} THEN NoMove
      ELSE moves[CHOOSE k \in ks : \A j \in ks : k <= j]

\* Math.floor(Math.random() * n), Math.random() = r / RandomSteps
RandomIndex(r, n) == (r * n) \div RandomSteps

\* aiMove whose corner and side lists are not filtered for empty cells
aiMove_unfiltered(b, aiPlayer, r) ==
  LET human   == Other(aiPlayer)
      moves   == availableMoves(b)
      win     == FirstWinning(b, moves, aiPlayer)
      block   == FirstWinning(b, moves, human)
      corners == <<0, 2, 6, 8>>
      sides   == <<1, 3, 5, 7>>
  IN  IF Len(moves) = 0 THEN NoMove
      ELSE IF win # NoMove THEN win
      ELSE IF block # NoMove THEN block
      ELSE IF Get(b, 4) = Null THEN 4
      ELSE IF Len(corners) > 0 THEN corners[RandomIndex(r, Len(corners)) + 1]
      ELSE IF Len(sides) > 0 THEN sides[RandomIndex(r, Len(sides)) + 1]
      ELSE moves[1]

\* aiMove with the "block opponent" loop ahead of the "try to win" loop
aiMove_blockFirst(b, aiPlayer, r) ==
  LET human   == Other(aiPlayer)
      moves   == availableMoves(b)
      win     == FirstWinning(b, moves, aiPlayer)
      block   == FirstWinning(b, moves, human)
      corners == SelectSeq(<<0, 2, 6, 8>>, LAMBDA i : Get(b, i) = Null)
      sides   == SelectSeq(<<1, 3, 5, 7>>, LAMBDA i : Get(b, i) = Null)
  IN  IF Len(moves) = 0 THEN NoMove
      ELSE IF block # NoMove THEN block
      ELSE IF win # NoMove THEN win
      ELSE IF Get(b, 4) = Null THEN 4
      ELSE IF Len(corners) > 0 THEN corners[RandomIndex(r, Len(corners)) + 1]
      ELSE IF Len(sides) > 0 THEN sides[RandomIndex(r, Len(sides)) + 1]
      ELSE moves[1]

\* aiMove without the "block opponent" loop
aiMove_noBlock(b, aiPlayer, r) ==
  LET moves   == availableMoves(b)
      win     == FirstWinning(b, moves, aiPlayer)
      corners == SelectSeq(<<0, 2, 6, 8>>, LAMBDA i : Get(b, i) = Null)
      sides   == SelectSeq(<<1, 3, 5, 7>>, LAMBDA i : Get(b, i) = Null)
  IN  IF Len(moves) = 0 THEN NoMove
      ELSE IF win # NoMove THEN win
      ELSE IF Get(b, 4) = Null THEN 4
      ELSE IF Len(corners) > 0 THEN corners[RandomIndex(r, Len(corners)) + 1]
      ELSE IF Len(sides) > 0 THEN sides[RandomIndex(r, Len(sides)) + 1]
      ELSE moves[1]

aiMove(b, aiPlayer, r) ==
  LET human   == Other(aiPlayer)
      moves   == availableMoves(b)
      win     == FirstWinning(b, moves, aiPlayer)
      block   == FirstWinning(b, moves, human)
      corners == SelectSeq(<<0, 2, 6, 8>>, LAMBDA i : Get(b, i) = Null)
      sides   == SelectSeq(<<1, 3, 5, 7>>, LAMBDA i : Get(b, i) = Null)
  IN  IF Len(moves) = 0 THEN NoMove
      ELSE IF win # NoMove THEN win
      ELSE IF block # NoMove THEN block
      ELSE IF Get(b, 4) = Null THEN 4
      ELSE IF Len(corners) > 0 THEN corners[RandomIndex(r, Len(corners)) + 1]
      ELSE IF Len(sides) > 0 THEN sides[RandomIndex(r, Len(sides)) + 1]
      ELSE moves[1]

\* ------------------------------------------------- derived render values
winner(b) == calculateWinner(b).winner
isDraw(b) == winner(b) = Null /\ Len(availableMoves(b)) = 0
currentPlayer(x) == IF x THEN "X" ELSE "O"
Terminal(b) == winner(b) # Null \/ isDraw(b)

\* the React state as one record
State == [board |-> board, xIsNext |-> xIsNext, mode |-> mode, aiPlays |-> aiPlays]

\* ------------------------------------------------------------- handlers
\* handlePlay with setXIsNext(!xIsNext) left out
handlePlay_keepTurn(s, index) ==
  IF winner(s.board) # Null \/ isDraw(s.board) THEN s
  ELSE IF Get(s.board, index) # Null THEN s
  ELSE IF s.mode = "AI" /\ currentPlayer(s.xIsNext) = s.aiPlays THEN s
  ELSE [s EXCEPT !.board = Put(Spread(s.board), index, currentPlayer(s.xIsNext))]

\* handlePlay without "if (winner || isDraw) return"
handlePlay_noTerminalGuard(s, index) ==
  IF Get(s.board, index) # Null THEN s
  ELSE IF s.mode = "AI" /\ currentPlayer(s.xIsNext) = s.aiPlays THEN s
  ELSE [s EXCEPT !.board = Put(Spread(s.board), index, currentPlayer(s.xIsNext)),
                 !.xIsNext = ~s.xIsNext]

\* handlePlay without the "ignore user click on the AI's turn" return
handlePlay_noAiTurnGuard(s, index) ==
  IF winner(s.board) # Null \/ isDraw(s.board) THEN s
  ELSE IF Get(s.board, index) # Null THEN s
  ELSE [s EXCEPT !.board = Put(Spread(s.board), index, currentPlayer(s.xIsNext)),
                 !.xIsNext = ~s.xIsNext]

\* handlePlay without "if (board[index]) return"
handlePlay_noOccupiedGuard(s, index) ==
  IF winner(s.board) # Null \/ isDraw(s.board) THEN s
  ELSE IF s.mode = "AI" /\ currentPlayer(s.xIsNext) = s.aiPlays THEN s
  ELSE [s EXCEPT !.board = Put(Spread(s.board), index, currentPlayer(s.xIsNext)),
                 !.xIsNext = ~s.xIsNext]

\* handlePlay with copy = Array(9).fill(null) in place of [...board]
handlePlay_freshCopy(s, index) ==
  IF winner(s.board) # Null \/ isDraw(s.board) THEN s
  ELSE IF Get(s.board, index) # Null THEN s
  ELSE IF s.mode = "AI" /\ currentPlayer(s.xIsNext) = s.aiPlays THEN s
  ELSE [s EXCEPT !.board = Put(EmptyBoard, index, currentPlayer(s.xIsNext)),
                 !.xIsNext = ~s.xIsNext]

handlePlay(s, index) ==
  IF winner(s.board) # Null \/ isDraw(s.board) THEN s
  ELSE IF Get(s.board, index) # Null THEN s
  ELSE IF s.mode = "AI" /\ currentPlayer(s.xIsNext) = s.aiPlays THEN s
  ELSE [s EXCEPT !.board = Put(Spread(s.board), index, currentPlayer(s.xIsNext)),
                 !.xIsNext = ~s.xIsNext]

\* resetGame with setXIsNext(true) left out
resetGame_keepTurn(s) == [s EXCEPT !.board = EmptyBoard]

resetGame(s) == [s EXCEPT !.board = EmptyBoard, !.xIsNext = TRUE]

\* restartAndSwap with setXIsNext(true), as resetGame has it
restartAndSwap_noSwap(s) == [s EXCEPT !.board = EmptyBoard, !.xIsNext = TRUE]

restartAndSwap(s) == [s EXCEPT !.board = EmptyBoard, !.xIsNext = ~s.xIsNext]

toggleAiSide(s) ==
  [s EXCEPT !.aiPlays = IF s.aiPlays = "X" THEN "O" ELSE "X",
            !.board = EmptyBoard, !.xIsNext = TRUE]

\* ModeToggle's setMode prop: setMode(m); resetGame()
setMode(s, m) == resetGame([s EXCEPT !.mode = m])

\* the chip's onClick without its "if (aiPlays !== mark)" test
aiSideChip_unguarded(s, mark) == toggleAiSide(s)

\* onClick of the "AI plays" chip for mark
aiSideChip(s, mark) == IF s.aiPlays # mark THEN toggleAiSide(s) ELSE s

\* the timeout callback with setXIsNext((p) => !p) left out
aiTimeout_noFlip(s, t, r) ==
  LET move == aiMove(t.board, t.aiPlays, r)
  IN  IF move # NoMove
      THEN [s EXCEPT !.board = IF Get(s.board, move) # Null THEN s.board
                                ELSE Put(Spread(s.board), move, t.aiPlays)]
      ELSE s

\* the setTimeout callback of the AI turn effect; t is its closure
aiTimeout(s, t, r) ==
  LET move == aiMove(t.board, t.aiPlays, r)
  IN  IF move # NoMove
      THEN [s EXCEPT !.board = IF Get(s.board, move) # Null THEN s.board
                                ELSE Put(Spread(s.board), move, t.aiPlays),
                     !.xIsNext = ~s.xIsNext]
      ELSE s

\* the effect with its turn test inverted: if (currentPlayer === aiPlays) return
aiTurnEffect_invertedTurn(s) ==
  IF s.mode # "AI" THEN {}
  ELSE IF winner(s.board) # Null \/ isDraw(s.board) THEN {}
  ELSE IF currentPlayer(s.xIsNext) = s.aiPlays THEN {}
  ELSE {[board |-> s.board, aiPlays |-> s.aiPlays]}

\* body of the AI turn effect: the timeouts it leaves pending
aiTurnEffect(s) ==
  IF s.mode # "AI" THEN {}
  ELSE IF winner(s.board) # Null \/ isDraw(s.board) THEN {}
  ELSE IF currentPlayer(s.xIsNext) # s.aiPlays THEN {}
  ELSE {[board |-> s.board, aiPlays |-> s.aiPlays]}

\* ----------------------------------------------------------------- init
NoProbe == [fn |-> "none", player |-> Null, move |-> NoMove,
            winner |-> Null, line |-> <<>>]

\* number of cells holding a mark
Filled(b) == Cardinality({k \in DOMAIN b : b[k] # Null})

Init ==
  /\ board = EmptyBoard
  /\ xIsNext = TRUE
  /\ mode = "AI"
  /\ aiPlays = "O"
  /\ timers = {}
  /\ last = [op |-> "init", accepted |-> FALSE, cell |-> Null,
             preX |-> TRUE, preFilled |-> 0]
  /\ humanPlaced = {}
  /\ aiPlaced = {}
  /\ roundStarter = "X"
  /\ swapRun = 0
  /\ probe = NoProbe

ResetOps == {"resetGame", "restartAndSwap", "setMode", "toggleAiSide"}

\* Commit with the effect's "return () => clearTimeout(id)" left out
Commit_noCleanup(op, index, new, rerun, live) ==
  /\ board' = new.board
  /\ xIsNext' = new.xIsNext
  /\ mode' = new.mode
  /\ aiPlays' = new.aiPlays
  /\ timers' = IF rerun THEN live \cup aiTurnEffect(new) ELSE live
  /\ last' = [op |-> op, accepted |-> new # State,
              cell |-> IF op = "handlePlay" THEN Get(board, index) ELSE Null,
              preX |-> xIsNext, preFilled |-> Filled(board)]
  /\ humanPlaced' = IF op \in ResetOps THEN {}
                    ELSE IF op = "handlePlay" /\ new.board # board
                         THEN humanPlaced \cup {index}
                    ELSE IF op = "aiTimeout" /\ new.board # board
                         THEN humanPlaced \ {index}
                    ELSE humanPlaced
  /\ aiPlaced' = IF op \in ResetOps THEN {}
                 ELSE IF op = "aiTimeout" /\ new.board # board
                      THEN aiPlaced \cup {index}
                 ELSE IF op = "handlePlay" /\ new.board # board
                      THEN aiPlaced \ {index}
                 ELSE aiPlaced
  /\ roundStarter' = IF op \in ResetOps THEN currentPlayer(new.xIsNext)
                     ELSE roundStarter
  /\ swapRun' = IF op # "restartAndSwap" THEN 0
                ELSE IF swapRun = 1 THEN 2
                ELSE IF board = EmptyBoard /\ xIsNext THEN 1
                ELSE 0
  /\ probe' = probe

\* Commit of one event: new is the state the handler set, index the cell it
\* was about, live the timeouts still pending when the handler returns.
\* The AI turn effect (cleanup, then body) re-runs when a dependency changed:
\* every setBoard call of a handler installs a new array.
Commit(op, index, new, rerun, live) ==
  /\ board' = new.board
  /\ xIsNext' = new.xIsNext
  /\ mode' = new.mode
  /\ aiPlays' = new.aiPlays
  /\ timers' = IF rerun THEN aiTurnEffect(new) ELSE live
  /\ last' = [op |-> op, accepted |-> new # State,
              cell |-> IF op = "handlePlay" THEN Get(board, index) ELSE Null,
              preX |-> xIsNext, preFilled |-> Filled(board)]
  /\ humanPlaced' = IF op \in ResetOps THEN {}
                    ELSE IF op = "handlePlay" /\ new.board # board
                         THEN humanPlaced \cup {index}
                    ELSE IF op = "aiTimeout" /\ new.board # board
                         THEN humanPlaced \ {index}
                    ELSE humanPlaced
  /\ aiPlaced' = IF op \in ResetOps THEN {}
                 ELSE IF op = "aiTimeout" /\ new.board # board
                      THEN aiPlaced \cup {index}
                 ELSE IF op = "handlePlay" /\ new.board # board
                      THEN aiPlaced \ {index}
                 ELSE aiPlaced
  /\ roundStarter' = IF op \in ResetOps THEN currentPlayer(new.xIsNext)
                     ELSE roundStarter
  /\ swapRun' = IF op # "restartAndSwap" THEN 0
                ELSE IF swapRun = 1 THEN 2
                ELSE IF board = EmptyBoard /\ xIsNext THEN 1
                ELSE 0
  /\ probe' = probe

\* -------------------------------------------------------------- actions
\* onPlay(i) of a square
ClickSquare(i) ==
  LET new == handlePlay(State, i)
  IN  Commit("handlePlay", i, new, new # State, timers)

ClickReset ==
  Commit("resetGame", NoMove, resetGame(State), TRUE, timers)

ClickRestartAndSwap ==
  Commit("restartAndSwap", NoMove, restartAndSwap(State), TRUE, timers)

ClickMode(m) ==
  Commit("setMode", NoMove, setMode(State, m), TRUE, timers)

\* the chips are rendered only when mode === 'AI'
ClickAiSide(mark) ==
  /\ mode = "AI"
  /\ LET new == aiSideChip(State, mark)
     IN  Commit(IF new # State THEN "toggleAiSide" ELSE "aiSideChip",
                NoMove, new, new # State, timers)

\* a pending timeout fires
AiTimeout ==
  \E t \in timers : \E r \in 0..(RandomSteps - 1) :
    LET new == aiTimeout(State, t, r)
    IN  Commit("aiTimeout", aiMove(t.board, t.aiPlays, r),
               new, new # State, timers \ {t})

Next ==
  \/ \E i \in Squares : ClickSquare(i)
  \/ ClickReset
  \/ ClickRestartAndSwap
  \/ \E m \in Modes : ClickMode(m)
  \/ \E mark \in Marks : ClickAiSide(mark)
  \/ AiTimeout

Spec == Init /\ [][Next]_vars

\* A timeout that stays pending fires once its 350 ms delay has elapsed:
\* weak fairness of AiTimeout, written out.  AiTimeout is enabled exactly
\* when timers # {} (it takes any pending timeout and always changes timers
\* or xIsNext), and its steps are the steps that set last.op to "aiTimeout".
AiTimeoutFair ==
  \/ []<>(timers = {})
  \/ []<><<last'.op = "aiTimeout">>_vars

SpecFair == Init /\ [][Next]_vars /\ AiTimeoutFair

\* ------------------------------------------------ the helpers on any board
\* every 9-cell board over {null, 'X', 'O'}
Boards == [0..(BoardSize - 1) -> Marks \cup {Null}]

InitPure ==
  /\ board \in Boards
  /\ xIsNext = TRUE
  /\ mode = "AI"
  /\ aiPlays = "O"
  /\ timers = {}
  /\ last = [op |-> "init", accepted |-> FALSE, cell |-> Null,
             preX |-> TRUE, preFilled |-> 0]
  /\ humanPlaced = {}
  /\ aiPlaced = {}
  /\ roundStarter = "X"
  /\ swapRun = 0
  /\ probe = NoProbe

\* aiMove(board, p) with Math.random() = r / RandomSteps
CallAiMove ==
  /\ probe.fn = "none"
  /\ \E p \in Marks : \E r \in 0..(RandomSteps - 1) :
        probe' = [NoProbe EXCEPT !.fn = "aiMove", !.player = p,
                                 !.move = aiMove(board, p, r)]
  /\ UNCHANGED <<board, xIsNext, mode, aiPlays, timers,
                 last, humanPlaced, aiPlaced, roundStarter, swapRun>>

\* calculateWinner(board)
CallCalculateWinner ==
  /\ probe.fn = "none"
  /\ probe' = [NoProbe EXCEPT !.fn = "calculateWinner",
                              !.winner = calculateWinner(board).winner,
                              !.line = calculateWinner(board).line]
  /\ UNCHANGED <<board, xIsNext, mode, aiPlays, timers,
                 last, humanPlaced, aiPlaced, roundStarter, swapRun>>

NextPure == CallAiMove \/ CallCalculateWinner

SpecPure == InitPure /\ [][NextPure]_vars

\* handlePlay called with any index, as a direct caller of the handler may
AnyIndex == (0 - Overshoot)..(BoardSize - 1 + Overshoot)

NextAnyIndex ==
  \/ \E i \in AnyIndex : Filled(board) < MaxFilled /\ ClickSquare(i)
  \/ ClickReset
  \/ ClickRestartAndSwap
  \/ \E m \in Modes : ClickMode(m)
  \/ \E mark \in Marks : ClickAiSide(mark)
  \/ AiTimeout

SpecAnyIndex == Init /\ [][NextAnyIndex]_vars

TypeOK ==
  /\ xIsNext \in BOOLEAN
  /\ mode \in Modes
  /\ aiPlays \in Marks
  /\ \A i \in DOMAIN board : board[i] \in Marks \cup {Null}
  /\ Cardinality(timers) <= 1

\* ------------------------------------------------------------ properties
PlayOp == last'.op = "handlePlay"
HumanMayMove == mode = "PVP" \/ currentPlayer(xIsNext) # aiPlays
ResetStep == last'.op \in ResetOps

\* C1: an accepted move request (game in progress, index in 0..8, cell
\* empty, not the computer's turn) puts the mark that was to move on
\* board[index], keeps the other 8 cells, mode and aiPlays, and passes the
\* turn to the other mark.
C1_ApplyMoveSucceeds ==
  [][(PlayOp /\ HumanMayMove /\ ~Terminal(board)) =>
       \A i \in Squares :
          (Get(board, i) = Null /\ ClickSquare(i))
          => /\ board' = [board EXCEPT ![i] = currentPlayer(xIsNext)]
             /\ currentPlayer(xIsNext') = Other(currentPlayer(xIsNext))
             /\ mode' = mode
             /\ aiPlays' = aiPlays]_vars

C1_Witness ==
  /\ last.op = "handlePlay"
  /\ last.accepted
  /\ last.preFilled >= 2
  /\ Filled(board) = last.preFilled + 1

\* C2: with the game won or drawn, no move request and no computer turn
\* changes board or xIsNext; only the reset family leaves such a state.
C2_TerminalAbsorbing ==
  [][/\ (/\ last'.op \in {"handlePlay", "aiTimeout"}
         /\ Terminal(board)
         /\ ((\E i \in Squares : ClickSquare(i)) \/ AiTimeout))
        => UNCHANGED <<board, xIsNext>>
     /\ (<<board, xIsNext>>' # <<board, xIsNext>> /\ Terminal(board))
        => ResetStep]_vars

C2_Witness ==
  /\ last.op = "handlePlay"
  /\ ~last.accepted
  /\ last.cell = Null
  /\ winner(board) # Null

\* C3: in AI mode a move request made on the computer's turn is rejected,
\* and every cell holding the computer's mark was filled by the timeout
\* callback of the AI turn effect, none by a move request.
C3_OnlyPolicyPlacesComputerMark ==
  [][/\ (PlayOp /\ mode = "AI" /\ currentPlayer(xIsNext) = aiPlays) =>
          \A i \in Squares : ClickSquare(i) => UNCHANGED <<board, xIsNext>>
     /\ mode' = "AI" =>
          \A i \in DOMAIN board' :
             board'[i] = aiPlays' => (i \in aiPlaced' /\ i \notin humanPlaced')]_vars

C3_Witness ==
  /\ last.op = "handlePlay"
  /\ ~last.accepted
  /\ last.cell = Null
  /\ ~Terminal(board)
  /\ mode = "AI"
  /\ currentPlayer(xIsNext) = aiPlays
  /\ aiPlaced # {}

\* C4: a move request on a cell that already holds a mark leaves the whole
\* board and xIsNext as they were.
C4_OccupiedCellNoOp ==
  [][PlayOp =>
       \A i \in Squares :
          (Get(board, i) # Null /\ ClickSquare(i)) => UNCHANGED <<board, xIsNext>>]_vars

C4_Witness ==
  /\ last.op = "handlePlay"
  /\ ~last.accepted
  /\ last.cell # Null
  /\ ~Terminal(board)
  /\ HumanMayMove

C6_BoardInvariant ==
  [][/\ Length(board') = BoardSize
     /\ DOMAIN board' = 0..(BoardSize - 1)
     /\ \/ \A i \in DOMAIN board : board[i] # Null => Get(board', i) = board[i]
        \/ ResetStep /\ board' = EmptyBoard]_vars

C6_Witness ==
  /\ last.op \in {"handlePlay", "aiTimeout"}
  /\ last.accepted
  /\ last.preFilled >= 3
  /\ Filled(board) = last.preFilled + 1

\* C7: Reset gives the position the session is created with (all 9 cells
\* empty, X to move) and keeps mode and aiPlays.
C7_ResetRestoresInitial ==
  [][(last'.op = "resetGame" /\ ClickReset) =>
       /\ board' = EmptyBoard
       /\ xIsNext' = TRUE
       /\ mode' = mode
       /\ aiPlays' = aiPlays]_vars

C7_Witness ==
  /\ last.op = "resetGame"
  /\ last.preFilled > 0
  /\ ~last.preX
  /\ board = EmptyBoard

\* C8: RestartAndSwap empties the board, makes xIsNext the opposite of what
\* it was just before, keeps mode and aiPlays; two calls in a row from the
\* initial position leave X to move.
C8_RestartAndSwap ==
  [][/\ (last'.op = "restartAndSwap" /\ ClickRestartAndSwap) =>
          /\ board' = EmptyBoard
          /\ xIsNext' = ~xIsNext
          /\ mode' = mode
          /\ aiPlays' = aiPlays
     /\ swapRun' = 2 => (xIsNext' = TRUE /\ board' = EmptyBoard)]_vars

C8_Witness == swapRun = 2

\* C9: the mark that moves first in the round RestartAndSwap opens is the
\* opposite of the mark that moved first in the round it ended.
C9_StarterAlternates ==
  [][last'.op = "restartAndSwap" => roundStarter' = Other(roundStarter)]_vars

\* C10: the chip for a mark other than aiPlays sets aiPlays to it and resets
\* (board empty, X to move, mode kept); the chip for the current aiPlays
\* changes nothing, also in the middle of a game.
C10_SetComputerMark ==
  [][last'.op \in {"toggleAiSide", "aiSideChip"} =>
       \A mark \in Marks :
         ClickAiSide(mark) =>
         IF mark # aiPlays
         THEN /\ aiPlays' = mark
              /\ board' = EmptyBoard
              /\ xIsNext' = TRUE
              /\ mode' = mode
         ELSE UNCHANGED <<board, xIsNext, mode, aiPlays>>]_vars

C10_Witness ==
  /\ last.op = "aiSideChip"
  /\ ~last.accepted
  /\ last.preFilled > 0
  /\ Filled(board) = last.preFilled

\* the computer's turn is due: the condition under which the AI turn effect
\* schedules its timeout
AiTurnDue ==
  /\ mode = "AI"
  /\ ~Terminal(board)
  /\ currentPlayer(xIsNext) = aiPlays

\* C11: at most one timeout is pending, and a pending timeout was scheduled
\* for exactly the current board, mode and aiPlays: a reset, a mode or side
\* change or any board change cancels the one scheduled before, so the
\* callback never fires in PVP mode or on a board it did not see.
C11_NoStaleComputerMove ==
  /\ Cardinality(timers) <= 1
  /\ \A t \in timers :
        /\ t.board = board
        /\ t.aiPlays = aiPlays
        /\ AiTurnDue

\* a reset in mid-delay: the human had moved, the timeout was pending, and
\* Reset left none
C11_Witness ==
  /\ last.op = "resetGame"
  /\ mode = "AI"
  /\ last.preFilled = 1
  /\ currentPlayer(last.preX) = aiPlays
  /\ timers = {}

\* the timeout callback has placed the computer's mark
ComputerMoved == last.op = "aiTimeout" /\ last.accepted

\* C12: once the computer's turn is due, the timeout fires unless a reset,
\* a mode change or a side change takes the turn away first; a firing
\* timeout puts exactly one aiPlays mark on an empty cell that aiMove chose
\* and passes the turn to the human's mark.
C12_ComputerTurnFires ==
  /\ [][last'.op = "aiTimeout" =>
          \E i \in Squares :
             /\ board[i] = Null
             /\ \E r \in 0..(RandomSteps - 1) : aiMove(board, aiPlays, r) = i
             /\ board' = [board EXCEPT ![i] = aiPlays]
             /\ currentPlayer(xIsNext') = Other(aiPlays)
             /\ mode' = mode
             /\ aiPlays' = aiPlays]_vars
  /\ [][(AiTurnDue /\ ~AiTurnDue') => (ComputerMoved' \/ ResetStep)]_vars
  /\ AiTurnDue ~> (ComputerMoved \/ ~AiTurnDue)

C12_Witness ==
  /\ ComputerMoved
  /\ last.preFilled >= 1
  /\ Filled(board) = last.preFilled + 1
  /\ mode = "AI"
  /\ currentPlayer(xIsNext) = Other(aiPlays)

\* ------------------------------------------- properties of the helpers
\* the cells of board b
Cells == 0..(BoardSize - 1)
Empties(b) == {i \in Cells : b[i] = Null}
MinOf(S) == CHOOSE m \in S : \A j \in S : m <= j

\* the 8 lines of a 3x3 row-major grid (index = row*3 + col), in the order
\* rows, columns, diagonals
GridLines ==
  [row \in 1..3 |-> [col \in 1..3 |-> (row - 1) * 3 + (col - 1)]]
  \o [col \in 1..3 |-> [row \in 1..3 |-> (row - 1) * 3 + (col - 1)]]
  \o << [d \in 1..3 |-> (d - 1) * 3 + (d - 1)],
        [d \in 1..3 |-> (d - 1) * 3 + (3 - d)] >>

\* the lines of b that hold three equal marks
Completed(b) ==
  {k \in 1..Len(GridLines) :
     \E p \in Marks : \A j \in 1..3 : b[GridLines[k][j]] = p}

\* the empty cells of b that would complete a line of three p
CompletingCells(b, p) ==
  {i \in Empties(b) :
     \E k \in 1..Len(GridLines) :
        /\ \E j \in 1..3 : GridLines[k][j] = i
        /\ \A j \in 1..3 : GridLines[k][j] # i => b[GridLines[k][j]] = p}

\* C13: aiMove returns null exactly when the board has no empty cell, and
\* otherwise the index of an empty cell, whatever Math.random() yields; the
\* call leaves the board as it was.
C13_PolicyReturnsLegalMove ==
  [][probe'.fn = "aiMove" =>
       /\ (probe'.move = NoMove) <=> (Empties(board) = {})
       /\ probe'.move # NoMove => probe'.move \in Empties(board)
       /\ board' = board]_vars

C13_Witness ==
  /\ probe.fn = "aiMove"
  /\ probe.move \in {1, 3, 5, 7}
  /\ Cardinality(Empties(board)) >= 2
  /\ Completed(board) = {}
  /\ CompletingCells(board, "X") = {}
  /\ CompletingCells(board, "O") = {}

\* C14: on a board with no completed line where some empty cell completes
\* three of the computer's marks, aiMove returns the lowest such cell,
\* whatever the human threatens and whatever Math.random() yields.
C14_WinNow ==
  (/\ probe.fn = "aiMove"
   /\ Completed(board) = {}
   /\ CompletingCells(board, probe.player) # {})
  => probe.move = MinOf(CompletingCells(board, probe.player))

C14_Witness ==
  /\ probe.fn = "aiMove"
  /\ Completed(board) = {}
  /\ Cardinality(CompletingCells(board, probe.player)) >= 2
  /\ CompletingCells(board, Other(probe.player)) # {}
  /\ MinOf(CompletingCells(board, Other(probe.player))) < probe.move
  /\ board[4] = Null
  /\ probe.move # 4

\* C15: on a board with no completed line where no empty cell completes a
\* computer line but some empty cell completes three of the human's marks,
\* aiMove returns the lowest such cell, whatever Math.random() yields.
C15_Block ==
  (/\ probe.fn = "aiMove"
   /\ Completed(board) = {}
   /\ CompletingCells(board, probe.player) = {}
   /\ CompletingCells(board, Other(probe.player)) # {})
  => probe.move = MinOf(CompletingCells(board, Other(probe.player)))

C15_Witness ==
  /\ probe.fn = "aiMove"
  /\ Completed(board) = {}
  /\ CompletingCells(board, probe.player) = {}
  /\ Cardinality(CompletingCells(board, Other(probe.player))) >= 2
  /\ board[4] = Null
  /\ probe.move # 4

\* C16: calculateWinner returns no winner (and no line) exactly when none of
\* the 8 lines holds three equal marks; otherwise it returns the first
\* completed line in the order rows, columns, diagonals, with that line's
\* mark.
C16_Evaluate ==
  probe.fn = "calculateWinner" =>
    /\ (probe.winner = Null) <=> (Completed(board) = {})
    /\ Completed(board) = {} => probe.line = <<>>
    /\ Completed(board) # {} =>
         /\ probe.line = GridLines[MinOf(Completed(board))]
         /\ probe.winner = board[probe.line[1]]

C16_Witness ==
  /\ probe.fn = "calculateWinner"
  /\ Cardinality(Completed(board)) >= 2
  /\ probe.winner = "O"
  /\ \E k \in Completed(board) : board[GridLines[k][1]] = "X"

\* --------------------------------------------- properties of the session
\* C17 as claimed: every reachable board has at most one completed line.
C17_AtMostOneLine == Cardinality(Completed(board)) <= 1

\* C17 as amended: every reachable board has at most two completed lines,
\* and two completed lines hold the same mark and share a cell (the cell
\* of the winning move).
C17_AtMostTwoLinesThroughOneCell ==
  /\ Cardinality(Completed(board)) <= 2
  /\ \A k1, k2 \in Completed(board) :
        k1 # k2 =>
          /\ board[GridLines[k1][1]] = board[GridLines[k2][1]]
          /\ \E j1, j2 \in 1..3 : GridLines[k1][j1] = GridLines[k2][j2]

C17_Witness ==
  /\ Cardinality(Completed(board)) = 2
  /\ last.op = "handlePlay"
  /\ last.accepted

\* the cells of board b that hold a mark and were placed in the current
\* round while the mode was 'AI'
RoundPlayedAgainstComputer ==
  /\ mode = "AI"
  /\ humanPlaced \cup aiPlaced = {k \in Squares : board[k] # Null}
  /\ \A k \in humanPlaced : board[k] = Other(aiPlays)
  /\ \A k \in aiPlaced : board[k] = aiPlays

\* C18: the computer can be beaten.  The state C18_Witness, a round played
\* wholly against the computer and won by the human, is reachable; and the
\* only way there is a double threat: whenever a computer move leaves the
\* game in progress with a cell that completes a line of the human, the
\* human had at least two such cells before that move.
C18_BeatenOnlyByDoubleThreat ==
  [][(/\ last'.op = "aiTimeout"
      /\ board' # board
      /\ ~Terminal(board')
      /\ CompletingCells(board', Other(aiPlays)) # {})
     => Cardinality(CompletingCells(board, Other(aiPlays))) >= 2]_vars

C18_Witness ==
  /\ RoundPlayedAgainstComputer
  /\ winner(board) = Other(aiPlays)
  /\ Cardinality(aiPlaced) >= 2
  /\ last.op = "handlePlay"

\* number of cells of b holding mark m
Count(b, m) == Cardinality({k \in DOMAIN b : b[k] = m})

\* the step places one mark of the player to move on an empty cell
PlacesOneMark ==
  \E i \in Squares :
     /\ board[i] = Null
     /\ board' = [board EXCEPT ![i] = currentPlayer(xIsNext)]

\* the marks of the player who is not to move, less those of the player to
\* move, are 0 or 1
MarkCountsFollowTurn ==
  Count(board, Other(currentPlayer(xIsNext)))
    - Count(board, currentPlayer(xIsNext)) \in {0, 1}

\* C19 as claimed: the mark counts follow the turn, the player to move
\* never changes without exactly one mark of the previous mover being
\* placed, and no mark is placed without the turn passing.
C19_TurnChangesOnlyWithMark ==
  /\ MarkCountsFollowTurn
  /\ [][xIsNext' # xIsNext => PlacesOneMark]_vars
  /\ [][PlacesOneMark => xIsNext' # xIsNext]_vars

\* C19 as amended: the mark counts follow the turn in every reachable
\* state; the player to move changes only when exactly one mark of the
\* previous mover is placed or when Reset, RestartAndSwap, SetMode or
\* SetComputerMark empties the board; and the board changes only by such an
\* emptying or by one mark being placed with the turn passing.
C19_TurnAndMarkCount ==
  /\ MarkCountsFollowTurn
  /\ [][xIsNext' # xIsNext =>
          \/ PlacesOneMark
          \/ /\ last'.op \in ResetOps
             /\ board' = EmptyBoard]_vars
  /\ [][board' # board =>
          \/ PlacesOneMark /\ xIsNext' # xIsNext
          \/ /\ last'.op \in ResetOps
             /\ board' = EmptyBoard]_vars

C19_Witness ==
  /\ last.op = "aiTimeout"
  /\ last.preFilled >= 3
  /\ Count(board, Other(currentPlayer(xIsNext)))
       - Count(board, currentPlayer(xIsNext)) = 1

\* C20: no reachable board holds a completed line of X together with a
\* completed line of O; a winner appears only by an accepted move and is
\* the mark that made it, and it stays the last mover until the board is
\* emptied.
C20_SingleWinner ==
  /\ \A k1, k2 \in Completed(board) :
        board[GridLines[k1][1]] = board[GridLines[k2][1]]
  /\ winner(board) # Null => winner(board) = Other(currentPlayer(xIsNext))
  /\ [][(winner(board) = Null /\ winner(board') # Null) =>
          /\ last'.op \in {"handlePlay", "aiTimeout"}
          /\ PlacesOneMark
          /\ winner(board') = currentPlayer(xIsNext)]_vars
  /\ [][(winner(board) # Null /\ board' # EmptyBoard) =>
          (board' = board /\ xIsNext' = xIsNext)]_vars

C20_Witness ==
  /\ winner(board) = aiPlays
  /\ mode = "AI"
  /\ last.op = "aiTimeout"
  /\ Completed(board) # {}

====
